---- MODULE Spec2Model ----
(***************************************************************************)
(* torch/distributions/negative_binomial.py: the NegativeBinomial          *)
(* distribution.  One instance, its __dict__ (self), and the calls made on *)
(* it by one thread (Spec) or by two threads sharing it (SpecMT).          *)
(*                                                                         *)
(* A tensor is kept as its shape, the set of its distinct element values   *)
(* and its element type.  Broadcasting, casting, size() and the            *)
(* all-elements tests of constraints are exact on that representation, and *)
(* so are unary elementwise maps.  Binary elementwise arithmetic (mean,    *)
(* variance, the log-density) is the tensor library's: of its result the   *)
(* model keeps the shape.                                                  *)
(*                                                                         *)
(* Element codes.  total_count and value elements are integers, in halves  *)
(* for value (1 is 0.5).  A probability is a code 0..6 standing, in order, *)
(* for 0, eps, 1/4, 1/2, 3/4, 1-eps, 1; a logit is a code -2..2 standing   *)
(* for logit(eps), -ln 3, 0, ln 3, logit(1-eps).                           *)
(***************************************************************************)
EXTENDS Integers, Sequences, FiniteSets, TLC

VARIABLES
    self,      \* the instance's __dict__: attribute name -> value; <<>> before construction
    stack,     \* per thread: the frames of the call in progress, innermost last
    ret,       \* per thread: the value the last attribute read or returned frame produced
    grad,      \* per thread: torch.is_grad_enabled()
    outcome,   \* per thread: the last completed call, NoCall while a call is in progress
    computed,  \* per lazy attribute: how many times its body has produced a value
    call       \* per thread: the call in progress (operation, argument, grad mode at
               \* entry, sampler calls made so far), NoCall when there is none

vars == <<self, stack, ret, grad, outcome, computed, call>>

\* ------------------------------------------------------------------ bounds

MaxRank == 1
MaxDim == 3
MaxDistinct == 2

\* ------------------------------------------------------------------ values

Threads == {"main", "worker"}

None == [kind |-> "None"]
NoCall == [kind |-> "NoCall"]

Tensor(shape, vals, dtype) ==
    [kind |-> "tensor", shape |-> shape, vals |-> vals, dtype |-> dtype]

\* The result of binary elementwise arithmetic: its shape.
Array(shape) == [kind |-> "array", shape |-> shape]

Error(type) == [kind |-> "error", type |-> type]

IsError(v) == v.kind = "error"

Shapes == UNION {[1..n -> 1..MaxDim] : n \in 0..MaxRank}

RECURSIVE Numel(_)
Numel(shape) == IF shape = <<>> THEN 1 ELSE Head(shape) * Numel(Tail(shape))

\* The tensors of a shape whose elements are drawn from elems.
Tensors(shapes, elems, dtypes) ==
    {Tensor(s, v, d) : s \in shapes, v \in SUBSET elems \ {{}}, d \in dtypes}

WellFormed(x) ==
    /\ Cardinality(x.vals) <= MaxDistinct
    /\ Cardinality(x.vals) <= Numel(x.shape)

\* ------------------------------------------------------------------ the tensor library

Max(a, b) == IF a >= b THEN a ELSE b

Min(a, b) == IF a <= b THEN a ELSE b

\* shape, left-padded with 1s to rank n.
Pad(shape, n) ==
    [i \in 1..n |-> IF i <= n - Len(shape) THEN 1 ELSE shape[i - (n - Len(shape))]]

Broadcastable(s1, s2) ==
    LET n == Max(Len(s1), Len(s2))
        a == Pad(s1, n)
        b == Pad(s2, n)
    IN  \A i \in 1..n : a[i] = b[i] \/ a[i] = 1 \/ b[i] = 1

BroadcastShape(s1, s2) ==
    LET n == Max(Len(s1), Len(s2))
        a == Pad(s1, n)
        b == Pad(s2, n)
    IN  [i \in 1..n |-> Max(a[i], b[i])]

expand(x, shape) == [x EXCEPT !.shape = shape]

\* broadcast_all(a, b): both expanded to the common shape, or BroadcastError.
broadcast_all(a, b) ==
    IF Broadcastable(a.shape, b.shape)
    THEN LET s == BroadcastShape(a.shape, b.shape)
         IN  [error |-> None, first |-> expand(a, s), second |-> expand(b, s)]
    ELSE [error |-> Error("BroadcastError"), first |-> None, second |-> None]

type_as(x, other) == [x EXCEPT !.dtype = other.dtype]

size(x) == x.shape

\* clamp_probs: to [eps, 1 - eps].
clamp_probs(p) == Max(1, Min(5, p))

\* probs_to_logits(probs, is_binary=True) = log(ps) - log1p(-ps), ps clamped.
probs_to_logits(x) == [x EXCEPT !.vals = {clamp_probs(p) - 3 : p \in x.vals}]

\* logits_to_probs(logits, is_binary=True) = sigmoid(logits).
logits_to_probs(x) == [x EXCEPT !.vals = {l + 3 : l \in x.vals}]

\* torch.exp(-logits), as the code of its logarithm.
exp_neg(x) == [x EXCEPT !.vals = {0 - l : l \in x.vals}]

Gamma(concentration, rate) ==
    [kind |-> "Gamma", concentration |-> concentration, rate |-> rate]

\* Gamma.sample(sample_shape): the requested shape prepended to the batch shape.
extended_shape(dist, sample_shape) == sample_shape \o dist.concentration.shape

\* ------------------------------------------------------------------ the class

\* arg_constraints with the constraint of total_count left out.
arg_constraints_probs_only ==
    [probs |-> [lower_bound |-> 0, upper_bound |-> 6]]

\* arg_constraints: total_count >= 0, probs in [0, 1).
arg_constraints ==
    [total_count |-> [lower_bound |-> 0],
     probs |-> [lower_bound |-> 0, upper_bound |-> 6]]

\* constraint.check(x).all() for the constraint of param.
check(param, x) ==
    /\ \A v \in x.vals : v >= arg_constraints[param].lower_bound
    /\ "upper_bound" \in DOMAIN arg_constraints[param]
          => \A v \in x.vals : v < arg_constraints[param].upper_bound

\* support = nonnegative_integer, on value elements in halves.
support(x) == \A v \in x.vals : v >= 0 /\ v % 2 = 0

\* _gamma declared with @property instead of @lazy_property.
Decorator_gamma_property(name) ==
    CASE name \in {"logits", "probs"} -> "lazy_property"
      [] name \in {"mean", "variance", "param_shape", "_gamma"} -> "property"
      [] OTHER -> "def"

\* logits and probs declared with @property instead of @lazy_property.
Decorator_params_property(name) ==
    CASE name \in {"_gamma"} -> "lazy_property"
      [] name \in {"mean", "variance", "param_shape", "logits", "probs"} -> "property"
      [] OTHER -> "def"

\* How each attribute of the class is declared.
Decorator(name) ==
    CASE name \in {"logits", "probs", "_gamma"} -> "lazy_property"
      [] name \in {"mean", "variance", "param_shape"} -> "property"
      [] OTHER -> "def"

SetAttr(dict, name, v) ==
    [a \in DOMAIN dict \cup {name} |-> IF a = name THEN v ELSE dict[a]]

\* The check with `and` for `==`: only the case of neither is caught.
BothOmitted(probs, logits) == probs = None /\ logits = None

\* `(probs is None) == (logits is None)`
XorViolated(probs, logits) == (probs = None) = (logits = None)

\* Distribution.__init__(batch_shape, validate_args): records both and, if
\* validating, checks every constrained parameter present in __dict__.
\* validate_args is the flag as resolved: None stands for the class default.
Distribution__init__(dict, batch_shape, validate_args) ==
    LET d == SetAttr(SetAttr(dict, "_batch_shape", batch_shape),
                     "_validate_args", validate_args)
        bad == {p \in DOMAIN arg_constraints \cap DOMAIN dict : ~check(p, dict[p])}
    IN  IF validate_args /\ bad # {}
        THEN [error |-> Error("ValidationError"), dict |-> <<>>]
        ELSE [error |-> None, dict |-> d]

\* The branch on `probs is not None`: broadcast_all, type_as, then _param.
init_params(total_count, probs, logits) ==
    LET given == IF probs # None THEN "probs" ELSE "logits"
        b == broadcast_all(total_count, IF probs # None THEN probs ELSE logits)
    IN  IF IsError(b.error)
        THEN [error |-> b.error, dict |-> <<>>]
        ELSE LET d1 == SetAttr(SetAttr(<<>>, "total_count", b.first), given, b.second)
                 d2 == SetAttr(d1, "total_count",
                               type_as(d1["total_count"], d1[given]))
             IN  [error |-> None, dict |-> SetAttr(d2, "_param", d2[given])]

\* __init__ validating total_count as given, before it broadcasts.
init_validating_first(total_count, probs, logits, validate_args) ==
    IF XorViolated(probs, logits)
    THEN [error |-> Error("ConfigurationError"), dict |-> <<>>]
    ELSE IF validate_args /\ ~check("total_count", total_count)
         THEN [error |-> Error("ValidationError"), dict |-> <<>>]
         ELSE LET r == init_params(total_count, probs, logits)
              IN  IF IsError(r.error)
                  THEN r
                  ELSE Distribution__init__(r.dict, size(r.dict["_param"]),
                                            validate_args)

\* NegativeBinomial.__init__: the error raised (None if none) and the __dict__.
__init__(total_count, probs, logits, validate_args) ==
    IF XorViolated(probs, logits)
    THEN [error |-> Error("ConfigurationError"), dict |-> <<>>]
    ELSE LET r == init_params(total_count, probs, logits)
         IN  IF IsError(r.error)
             THEN r
             ELSE Distribution__init__(r.dict, size(r.dict["_param"]), validate_args)

\* logits computed with the transform of the other direction.
logits_body_swapped(probs) == logits_to_probs(probs)

\* The bodies of the lazy attributes.
logits_body(probs) == probs_to_logits(probs)

probs_body(logits) == logits_to_probs(logits)

gamma_body(total_count, logits) == Gamma(total_count, exp_neg(logits))

\* ------------------------------------------------------------------ inputs

ParamDtypes == {"float32"}

TotalCountArgs(shapes) ==
    {x \in Tensors(shapes, {-1, 2}, {"int64"}) : WellFormed(x)}

ProbsArgs(shapes) == {x \in Tensors(shapes, {3, 6}, ParamDtypes) : WellFormed(x)}

LogitsArgs(shapes) == {x \in Tensors(shapes, {1}, ParamDtypes) : WellFormed(x)}

\* probs and logits as given; when both are given, with one shape.
ParamArgs(shapes) ==
    {pl \in [probs : ProbsArgs(shapes) \cup {None},
             logits : LogitsArgs(shapes) \cup {None}] :
        pl.probs = None \/ pl.logits = None \/ pl.probs.shape = pl.logits.shape}

CtorArgs(shapes) ==
    {[total_count |-> tc, probs |-> pl.probs, logits |-> pl.logits,
      validate_args |-> va] :
        tc \in TotalCountArgs(shapes), pl \in ParamArgs(shapes), va \in BOOLEAN}

SampleShapes == {<<>>, <<2>>}

ValueShapes == {<<>>, <<3>>}

ValueArgs == {x \in Tensors(ValueShapes, {-2, 1, 4}, ParamDtypes) : WellFormed(x)}

\* What the Gamma and Poisson samplers may draw, as sets of distinct elements.
RateDraws == {{1}, {2}}

CountDraws == {{0}, {3}}

\* ------------------------------------------------------------------ frames

Frame(fn, pc, arg) == [fn |-> fn, pc |-> pc, arg |-> arg, loc |-> None, prev |-> TRUE]

\* The first statement of each function body.
EntryPc(fn) ==
    CASE fn = "getattr" -> "get"
      [] fn = "mean" -> "get_logits"
      [] fn = "variance" -> "get_mean"
      [] fn = "logits" -> "get_probs"
      [] fn = "probs" -> "get_logits"
      [] fn = "param_shape" -> "body"
      [] fn = "_gamma" -> "get_logits"
      [] fn = "sample" -> "enter"
      [] fn = "log_prob" -> "validate"

Top(t) == stack[t][Len(stack[t])]

At(t, fn, pc) == stack[t] # <<>> /\ Top(t).fn = fn /\ Top(t).pc = pc

SetTop(t, f) == [stack EXCEPT ![t] = [@ EXCEPT ![Len(@)] = f]]

Constructed == DOMAIN self # {}

Idle(t) == stack[t] = <<>>

Done(c, result) ==
    [kind |-> "Done", op |-> c.op, arg |-> c.arg, grad0 |-> c.grad0, log |-> c.log,
     result |-> result]

Log(t, entry) == [call EXCEPT ![t].log = Append(@, entry)]

\* The top frame hands v to its caller; the outermost frame ends the call.
Pop(t, v) ==
    LET rest == SubSeq(stack[t], 1, Len(stack[t]) - 1)
    IN  /\ stack' = [stack EXCEPT ![t] = rest]
        /\ IF rest = <<>>
           THEN /\ outcome' = [outcome EXCEPT ![t] = Done(call[t], v)]
                /\ call' = [call EXCEPT ![t] = NoCall]
                /\ ret' = [ret EXCEPT ![t] = None]
           ELSE /\ ret' = [ret EXCEPT ![t] = v]
                /\ UNCHANGED <<outcome, call>>

\* `return v` in a function body.  Under lazy_property the value goes to
\* lazy_property.__get__, which stores it with setattr before handing it on.
ReturnValue(t, v) ==
    /\ computed' = [n \in DOMAIN computed |->
                       IF n = Top(t).fn THEN computed[n] + 1 ELSE computed[n]]
    /\ IF Decorator(Top(t).fn) = "lazy_property"
       THEN /\ stack' = SetTop(t, [Top(t) EXCEPT !.pc = "setattr", !.loc = v])
            /\ UNCHANGED <<ret, outcome, call>>
       ELSE Pop(t, v)

\* The grad mode disabled and re-enabled by hand, with no try/finally.
NoFinally == {}

\* The statements of sample inside `with torch.no_grad():`.
WithBody == {"get_gamma", "got_gamma", "poisson"}

\* An exception leaves every frame of the thread; no frame catches, and the
\* with statement of sample runs no_grad.__exit__ on the way out.
Raise(t, e) ==
    LET inside == {i \in 1..Len(stack[t]) :
                      stack[t][i].fn = "sample" /\ stack[t][i].pc \in WithBody}
    IN  /\ stack' = [stack EXCEPT ![t] = <<>>]
        /\ grad' = [grad EXCEPT ![t] =
                       IF inside = {} THEN @
                       ELSE stack[t][CHOOSE i \in inside : TRUE].prev]
        /\ outcome' = [outcome EXCEPT ![t] = Done(call[t], e)]
        /\ call' = [call EXCEPT ![t] = NoCall]
        /\ ret' = [ret EXCEPT ![t] = None]

\* self.<name>, read by the top frame, which continues as cont.  A name in
\* __dict__ is read from it; otherwise the class's descriptor runs the body.
Access(t, name, cont) ==
    IF name \in DOMAIN self
    THEN /\ stack' = SetTop(t, cont)
         /\ ret' = [ret EXCEPT ![t] = self[name]]
    ELSE /\ stack' = [SetTop(t, cont) EXCEPT ![t] =
                         Append(@, Frame(name, EntryPc(name), None))]
         /\ UNCHANGED ret

Goto(t, pc) == [Top(t) EXCEPT !.pc = pc]

\* ------------------------------------------------------------------ calls

\* NegativeBinomial(total_count, probs, logits, validate_args) on the main thread.
Construct ==
    /\ ~Constructed
    /\ outcome["main"] = NoCall
    /\ \E a \in CtorArgs(Shapes) :
          LET r == __init__(a.total_count, a.probs, a.logits, a.validate_args)
          IN  /\ self' = r.dict
              /\ outcome' = [outcome EXCEPT !["main"] =
                    [kind |-> "Done", op |-> "__init__", arg |-> a,
                     grad0 |-> grad["main"], log |-> <<>>, result |-> r.error]]
    /\ UNCHANGED <<stack, ret, grad, computed, call>>

\* torch.set_grad_enabled(b) between calls.
set_grad_enabled(t) ==
    /\ Constructed
    /\ Idle(t)
    /\ grad' = [grad EXCEPT ![t] = ~@]
    /\ UNCHANGED <<self, stack, ret, outcome, computed, call>>

\* Thread t calls op(arg) on the instance.
Begin(t, op, arg) ==
    /\ Constructed
    /\ Idle(t)
    /\ stack' = [stack EXCEPT ![t] = <<Frame(op, EntryPc(op), arg)>>]
    /\ call' = [call EXCEPT ![t] =
          [kind |-> "Call", op |-> op, arg |-> arg, grad0 |-> grad[t], log |-> <<>>]]
    /\ outcome' = [outcome EXCEPT ![t] = NoCall]
    /\ UNCHANGED <<self, ret, grad, computed>>

BeginGetattr(t) == \E name \in {"logits", "probs", "_gamma"} : Begin(t, "getattr", name)

BeginMean(t) == Begin(t, "mean", None)

BeginVariance(t) == Begin(t, "variance", None)

BeginParamShape(t) == Begin(t, "param_shape", None)

BeginSample(t) == \E sample_shape \in SampleShapes : Begin(t, "sample", sample_shape)

BeginLogProb(t) == \E value \in ValueArgs : Begin(t, "log_prob", value)

\* ------------------------------------------------------------------ steps

\* x.<name> from outside the class.
getattr_get(t) ==
    /\ At(t, "getattr", "get")
    /\ Access(t, Top(t).arg, Goto(t, "got"))
    /\ UNCHANGED <<self, grad, outcome, computed, call>>

getattr_got(t) ==
    /\ At(t, "getattr", "got")
    /\ Pop(t, ret[t])
    /\ UNCHANGED <<self, grad, computed>>

\* lazy_property.__get__, after the body returned: setattr(instance, name, value).
lazy_setattr(t) ==
    /\ stack[t] # <<>>
    /\ Top(t).pc = "setattr"
    /\ self' = SetAttr(self, Top(t).fn, Top(t).loc)
    /\ Pop(t, Top(t).loc)
    /\ UNCHANGED <<grad, computed>>

\* mean: self.total_count * torch.exp(self.logits)
mean_get_logits(t) ==
    /\ At(t, "mean", "get_logits")
    /\ Access(t, "logits", Goto(t, "got_logits"))
    /\ UNCHANGED <<self, grad, outcome, computed, call>>

mean_got_logits(t) ==
    /\ At(t, "mean", "got_logits")
    /\ ReturnValue(t, Array(BroadcastShape(self["total_count"].shape, ret[t].shape)))
    /\ UNCHANGED <<self, grad>>

\* variance: self.mean / torch.sigmoid(-self.logits)
variance_get_mean(t) ==
    /\ At(t, "variance", "get_mean")
    /\ stack' = [SetTop(t, [Top(t) EXCEPT !.pc = "got_mean"]) EXCEPT ![t] =
                    Append(@, Frame("mean", EntryPc("mean"), None))]
    /\ UNCHANGED <<self, ret, grad, outcome, computed, call>>

variance_got_mean(t) ==
    /\ At(t, "variance", "got_mean")
    /\ Access(t, "logits", [Top(t) EXCEPT !.loc = ret[t], !.pc = "got_logits"])
    /\ UNCHANGED <<self, grad, outcome, computed, call>>

variance_got_logits(t) ==
    /\ At(t, "variance", "got_logits")
    /\ ReturnValue(t, Array(BroadcastShape(Top(t).loc.shape, ret[t].shape)))
    /\ UNCHANGED <<self, grad>>

\* logits: probs_to_logits(self.probs, is_binary=True)
logits_get_probs(t) ==
    /\ At(t, "logits", "get_probs")
    /\ Access(t, "probs", Goto(t, "got_probs"))
    /\ UNCHANGED <<self, grad, outcome, computed, call>>

logits_got_probs(t) ==
    /\ At(t, "logits", "got_probs")
    /\ ReturnValue(t, logits_body(ret[t]))
    /\ UNCHANGED <<self, grad>>

\* probs: logits_to_probs(self.logits, is_binary=True)
probs_get_logits(t) ==
    /\ At(t, "probs", "get_logits")
    /\ Access(t, "logits", Goto(t, "got_logits"))
    /\ UNCHANGED <<self, grad, outcome, computed, call>>

probs_got_logits(t) ==
    /\ At(t, "probs", "got_logits")
    /\ ReturnValue(t, probs_body(ret[t]))
    /\ UNCHANGED <<self, grad>>

\* param_shape: self._param.size()
param_shape_body(t) ==
    /\ At(t, "param_shape", "body")
    /\ ReturnValue(t, Array(size(self["_param"])))
    /\ UNCHANGED <<self, grad>>

\* _gamma: torch.distributions.Gamma(concentration=self.total_count,
\*                                   rate=torch.exp(-self.logits))
gamma_get_logits(t) ==
    /\ At(t, "_gamma", "get_logits")
    /\ Access(t, "logits", Goto(t, "got_logits"))
    /\ UNCHANGED <<self, grad, outcome, computed, call>>

gamma_got_logits(t) ==
    /\ At(t, "_gamma", "got_logits")
    /\ \/ /\ ReturnValue(t, gamma_body(self["total_count"], ret[t]))
          /\ UNCHANGED <<self, grad>>
       \/ /\ Raise(t, Error("ExternalError"))
          /\ UNCHANGED <<self, computed>>

\* sample: `with torch.no_grad():` saves the grad mode and disables it.
sample_enter(t) ==
    /\ At(t, "sample", "enter")
    /\ stack' = SetTop(t, [Top(t) EXCEPT !.pc = "get_gamma", !.prev = grad[t]])
    /\ grad' = [grad EXCEPT ![t] = FALSE]
    /\ UNCHANGED <<self, ret, outcome, computed, call>>

sample_get_gamma(t) ==
    /\ At(t, "sample", "get_gamma")
    /\ Access(t, "_gamma", Goto(t, "got_gamma"))
    /\ UNCHANGED <<self, grad, outcome, computed, call>>

\* sample_shape not handed on.
default_sample_shape(sample_shape) == <<>>

\* The sample_shape that sample hands to Gamma.sample.
gamma_sample_shape(sample_shape) == sample_shape

\* rate = self._gamma.sample(sample_shape=sample_shape)
sample_got_gamma(t) ==
    /\ At(t, "sample", "got_gamma")
    /\ \/ /\ \E draw \in RateDraws :
                LET dist == ret[t]
                    shape == gamma_sample_shape(Top(t).arg)
                    rate == Tensor(extended_shape(dist, shape), draw,
                                   dist.concentration.dtype)
                IN  /\ WellFormed(rate)
                    /\ stack' = SetTop(t, [Top(t) EXCEPT !.pc = "poisson", !.loc = rate])
                    /\ call' = Log(t, [fn |-> "Gamma.sample", dist |-> dist,
                                       sample_shape |-> shape, out |-> rate])
          /\ UNCHANGED <<self, ret, grad, outcome, computed>>
       \/ /\ Raise(t, Error("ExternalError"))
          /\ UNCHANGED <<self, computed>>

\* torch.poisson on the rate parameter of the Gamma instead of on its draw.
poisson_of_gamma_rate(rate, dict) == dict["_gamma"].rate

\* The argument sample hands to torch.poisson.
poisson_arg(rate, dict) == rate

\* return torch.poisson(rate)
sample_poisson(t) ==
    /\ At(t, "sample", "poisson")
    /\ \/ /\ \E draw \in CountDraws :
                LET input == poisson_arg(Top(t).loc, self)
                    out == [input EXCEPT !.vals = draw]
                IN  /\ WellFormed(out)
                    /\ stack' = SetTop(t, [Top(t) EXCEPT !.pc = "exit", !.loc = out])
                    /\ call' = Log(t, [fn |-> "poisson", input |-> input, out |-> out])
          /\ UNCHANGED <<self, ret, grad, outcome, computed>>
       \/ /\ Raise(t, Error("ExternalError"))
          /\ UNCHANGED <<self, computed>>

\* Leaving the with statement: no_grad.__exit__ restores the saved grad mode.
sample_exit(t) ==
    /\ At(t, "sample", "exit")
    /\ grad' = [grad EXCEPT ![t] = Top(t).prev]
    /\ Pop(t, Top(t).loc)
    /\ UNCHANGED <<self, computed>>

\* Distribution._validate_sample(value): ValueError unless value broadcasts
\* with the batch shape and lies in the support.
validate_sample_ok(dict, value) ==
    /\ Broadcastable(value.shape, dict["_batch_shape"])
    /\ support(value)

\* log_prob without its validation branch.
never_validates(dict) == FALSE

\* `if self._validate_args:`
log_prob_validates(dict) == dict["_validate_args"]

log_prob_validate(t) ==
    /\ At(t, "log_prob", "validate")
    /\ IF log_prob_validates(self) /\ ~validate_sample_ok(self, Top(t).arg)
       THEN /\ Raise(t, Error("ValidationError"))
            /\ UNCHANGED <<self, computed>>
       ELSE /\ stack' = SetTop(t, Goto(t, "get_logits"))
            /\ UNCHANGED <<self, ret, grad, outcome, computed, call>>

\* log_unnormalized_prob reads self.logits twice.
log_prob_get_logits(t) ==
    /\ At(t, "log_prob", "get_logits")
    /\ Access(t, "logits", Goto(t, "got_logits"))
    /\ UNCHANGED <<self, grad, outcome, computed, call>>

log_prob_got_logits(t) ==
    /\ At(t, "log_prob", "got_logits")
    /\ Access(t, "logits", Goto(t, "got_logits2"))
    /\ UNCHANGED <<self, grad, outcome, computed, call>>

\* The arithmetic of log_prob: total_count, logits and value broadcast together.
log_prob_got_logits2(t) ==
    /\ At(t, "log_prob", "got_logits2")
    /\ LET batch == BroadcastShape(self["total_count"].shape, ret[t].shape)
           value == Top(t).arg
       IN  IF Broadcastable(batch, value.shape)
           THEN /\ ReturnValue(t, Array(BroadcastShape(batch, value.shape)))
                /\ UNCHANGED <<self, grad>>
           ELSE /\ Raise(t, Error("BroadcastError"))
                /\ UNCHANGED <<self, computed>>

\* ------------------------------------------------------------------ specifications

\* The attributes derived on first access.
LazyNames == {"logits", "probs", "_gamma"}

Quiet ==
    /\ stack = [t \in Threads |-> <<>>]
    /\ ret = [t \in Threads |-> None]
    /\ grad = [t \in Threads |-> TRUE]
    /\ outcome = [t \in Threads |-> NoCall]
    /\ call = [t \in Threads |-> NoCall]
    /\ computed = [name \in LazyNames |-> 0]

Init ==
    /\ self = <<>>
    /\ Quiet

\* The steps of the lazy attributes and of reading an attribute.
AttrStep(t) ==
    \/ getattr_get(t)
    \/ getattr_got(t)
    \/ lazy_setattr(t)
    \/ logits_get_probs(t)
    \/ logits_got_probs(t)
    \/ probs_get_logits(t)
    \/ probs_got_logits(t)
    \/ gamma_get_logits(t)
    \/ gamma_got_logits(t)

Step(t) ==
    \/ AttrStep(t)
    \/ mean_get_logits(t)
    \/ mean_got_logits(t)
    \/ variance_get_mean(t)
    \/ variance_got_mean(t)
    \/ variance_got_logits(t)
    \/ param_shape_body(t)
    \/ sample_enter(t)
    \/ sample_get_gamma(t)
    \/ sample_got_gamma(t)
    \/ sample_poisson(t)
    \/ sample_exit(t)
    \/ log_prob_validate(t)
    \/ log_prob_get_logits(t)
    \/ log_prob_got_logits(t)
    \/ log_prob_got_logits2(t)

\* One thread: construction, then calls one after the other.
Next ==
    \/ Construct
    \/ set_grad_enabled("main")
    \/ BeginGetattr("main")
    \/ BeginMean("main")
    \/ BeginVariance("main")
    \/ BeginParamShape("main")
    \/ BeginSample("main")
    \/ BeginLogProb("main")
    \/ Step("main")

Spec == Init /\ [][Next]_vars

\* Two threads holding one instance, each reading its lazy attributes.
SharedShapes == {s \in Shapes : Len(s) = 0}

InitMT ==
    /\ \E a \in CtorArgs(SharedShapes) :
          LET r == __init__(a.total_count, a.probs, a.logits, a.validate_args)
          IN  /\ ~IsError(r.error)
              /\ self = r.dict
    /\ Quiet

NextMT == \E t \in Threads : BeginGetattr(t) \/ AttrStep(t)

\* A thread in a call is scheduled again: each thread's steps are weakly fair.
SpecMT == InitMT /\ [][NextMT]_vars /\ \A t \in Threads : WF_vars(AttrStep(t))

\* ------------------------------------------------------------------ properties

\* Thread t's last completed call is a call of op.
Made(t, op) == outcome[t].kind = "Done" /\ outcome[t].op = op

Raised(t, type) == outcome[t].result = Error(type)

HasNegative(x) == \E v \in x.vals : v < 0

ExactlyOne(a) == (a.probs = None) # (a.logits = None)

GivenParam(a) == IF a.probs # None THEN a.probs ELSE a.logits

\* C1: construction raises ConfigurationError if and only if probs and logits
\* are both given or both omitted; with exactly one of them given it never
\* raises ConfigurationError.
C1_ConfigurationErrorIffNotExactlyOne ==
    Made("main", "__init__") =>
        (Raised("main", "ConfigurationError") <=> ~ExactlyOne(outcome["main"].arg))

\* Both probs and logits were given and ConfigurationError was raised.
C1_Witness ==
    /\ Made("main", "__init__")
    /\ outcome["main"].arg.probs # None
    /\ outcome["main"].arg.logits # None
    /\ Raised("main", "ConfigurationError")
    /\ ~Constructed

\* C2: for a construction that gives exactly one of probs/logits, with shapes
\* that broadcast: with validation enabled, an element of total_count below 0
\* raises ValidationError; with validation disabled nothing is raised and the
\* instance exists.
C2_NegativeTotalCount ==
    LET a == outcome["main"].arg
    IN  (/\ Made("main", "__init__")
         /\ ExactlyOne(a)
         /\ Broadcastable(a.total_count.shape, GivenParam(a).shape))
        => /\ (a.validate_args /\ HasNegative(a.total_count))
                 => Raised("main", "ValidationError") /\ ~Constructed
           /\ ~a.validate_args
                 => outcome["main"].result = None /\ Constructed

\* Validation was enabled, one element of total_count was -1 and another was
\* not, and ValidationError was raised.
C2_Witness ==
    /\ Made("main", "__init__")
    /\ outcome["main"].arg.validate_args
    /\ outcome["main"].arg.total_count.vals = {-1, 2}
    /\ outcome["main"].arg.probs # None
    /\ ~HasNegative(outcome["main"].arg.probs)
    /\ Raised("main", "ValidationError")

\* C9: construction checks in the order XOR, broadcast, validation, and the
\* first failing check decides the error: both or neither given raises
\* ConfigurationError whatever the shapes and total_count; exactly one given
\* with shapes that do not broadcast raises BroadcastError whatever the
\* validation flag and total_count; only then may ValidationError be raised.
C9_CheckOrder ==
    LET a == outcome["main"].arg
    IN  Made("main", "__init__") =>
           /\ ~ExactlyOne(a) => Raised("main", "ConfigurationError")
           /\ (/\ ExactlyOne(a)
               /\ ~Broadcastable(a.total_count.shape, GivenParam(a).shape))
                 => Raised("main", "BroadcastError")
           /\ Raised("main", "ValidationError")
                 => /\ ExactlyOne(a)
                    /\ Broadcastable(a.total_count.shape, GivenParam(a).shape)

\* Exactly one parameter was given, validation was enabled, total_count was
\* negative and its shape did not broadcast: BroadcastError was raised.
C9_Witness ==
    /\ Made("main", "__init__")
    /\ outcome["main"].arg.logits # None
    /\ outcome["main"].arg.probs = None
    /\ outcome["main"].arg.validate_args
    /\ HasNegative(outcome["main"].arg.total_count)
    /\ outcome["main"].arg.total_count.shape = <<2>>
    /\ outcome["main"].arg.logits.shape = <<3>>
    /\ Raised("main", "BroadcastError")

\* Thread t is in a call of op.
InCall(t, op) == call[t].kind = "Call" /\ call[t].op = op

\* This step ends thread t's call of op.
Ends(t, op) == InCall(t, op) /\ outcome'[t].kind = "Done"

\* C3: over any sequence of calls by one thread, each lazy attribute's body
\* produces a value at most once; its slot in __dict__, once set, stays set
\* with the same value, and no step taken while it is set runs the body again;
\* a read of the attribute returns the value in the slot.
C3_LazyComputedOnce ==
    [][\A name \in LazyNames :
          /\ computed'[name] <= 1
          /\ name \in DOMAIN self
                => /\ name \in DOMAIN self'
                   /\ self'[name] = self[name]
                   /\ computed'[name] = computed[name]
          /\ (Ends("main", "getattr") /\ call["main"].arg = name)
                => \/ IsError(outcome'["main"].result)
                   \/ /\ name \in DOMAIN self'
                      /\ outcome'["main"].result = self'[name]]_vars

\* logits was read after logits and _gamma had each been computed once: the
\* read found both slots set.
C3_Witness ==
    /\ Made("main", "getattr")
    /\ outcome["main"].arg = "logits"
    /\ computed = [name \in LazyNames |->
                      IF name \in {"logits", "_gamma"} THEN 1 ELSE 0]
    /\ {"logits", "_gamma"} \subseteq DOMAIN self

\* The frame of sample is about to draw from the Gamma or the Poisson sampler.
Drawing(t) == At(t, "sample", "got_gamma") \/ At(t, "sample", "poisson")

\* C4: sample runs its Gamma draw and its Poisson draw with the grad mode
\* disabled, and however the call ends (a return, or an exception from building
\* _gamma or from either sampler) the grad mode is again what it was when
\* sample was entered.
C4_NoGradRestored ==
    [][/\ Drawing("main") => ~grad["main"]
       /\ Ends("main", "sample") => grad'["main"] = call["main"].grad0]_vars

\* sample was entered with the grad mode enabled, drew from the Gamma, and the
\* Poisson sampler raised; the grad mode is enabled.
C4_Witness ==
    /\ Made("main", "sample")
    /\ outcome["main"].grad0
    /\ Len(outcome["main"].log) = 1
    /\ Raised("main", "ExternalError")
    /\ grad["main"]

\* C5: after a successful construction total_count and the given parameter
\* have one shape, the broadcast of the shapes given, and batch_shape is that
\* shape; a sample that returns has the shape sample_shape \o batch_shape.
C5_Shapes ==
    /\ Made("main", "__init__") /\ outcome["main"].result = None
          => LET a == outcome["main"].arg
                 s == BroadcastShape(a.total_count.shape, GivenParam(a).shape)
             IN  /\ self["_batch_shape"] = s
                 /\ self["total_count"].shape = s
                 /\ self["_param"].shape = s
    /\ Made("main", "sample") /\ ~IsError(outcome["main"].result)
          => outcome["main"].result.shape = outcome["main"].arg \o self["_batch_shape"]

\* With batch_shape (3,), sample((2,)) returned an array of shape (2, 3).
C5_Witness ==
    /\ Made("main", "sample")
    /\ self["_batch_shape"] = <<3>>
    /\ outcome["main"].arg = <<2>>
    /\ ~IsError(outcome["main"].result)
    /\ outcome["main"].result.shape = <<2, 3>>

\* total_count (3,) and probs (1,) gave batch_shape (3,).
C5_WitnessBatch ==
    /\ Made("main", "__init__")
    /\ outcome["main"].arg.total_count.shape = <<3>>
    /\ outcome["main"].arg.probs # None
    /\ outcome["main"].arg.probs.shape = <<1>>
    /\ Constructed
    /\ self["_batch_shape"] = <<3>>

\* C6, as claimed: no step of a log_prob call changes the instance's __dict__,
\* the slots of logits, probs and _gamma included.
C6_LogProbChangesNothing ==
    [][InCall("main", "log_prob") => self' = self]_vars

\* C6, amended: a log_prob call changes nothing in __dict__ except that, on an
\* instance whose logits slot is unset, it sets that slot to
\* probs_to_logits(probs); every other attribute, the probs and _gamma slots
\* included, is left as it was.
C6_LogProbSetsOnlyLogits ==
    [][InCall("main", "log_prob") =>
          /\ \A a \in DOMAIN self : a \in DOMAIN self' /\ self'[a] = self[a]
          /\ DOMAIN self' \subseteq DOMAIN self \cup {"logits"}
          /\ "logits" \in DOMAIN self' \ DOMAIN self
                => self'["logits"] = probs_to_logits(self["probs"])]_vars

\* log_prob's read of logits ran the body of logits on an instance built from
\* probs: the value is about to be stored in __dict__.
C6_Witness ==
    /\ InCall("main", "log_prob")
    /\ At("main", "logits", "setattr")
    /\ "logits" \notin DOMAIN self
    /\ "probs" \in DOMAIN self
    /\ Top("main").loc = probs_to_logits(self["probs"])

\* C8: with validation enabled, log_prob(value) raises ValidationError whenever
\* an element of value is outside the support, and it raises it from its first
\* statement, before it reads logits or computes anything; with validation
\* disabled log_prob never raises ValidationError.
C8_LogProbValidation ==
    [][Ends("main", "log_prob") =>
          LET value == call["main"].arg
              error == outcome'["main"].result = Error("ValidationError")
          IN  /\ (self["_validate_args"] /\ ~support(value)) => error
              /\ ~self["_validate_args"] => ~error
              /\ error => /\ At("main", "log_prob", "validate")
                          /\ self' = self
                          /\ computed' = computed]_vars

\* With validation enabled, log_prob of a value holding 0.5 raised
\* ValidationError on an instance built from probs; logits was never computed.
C8_Witness ==
    /\ Made("main", "log_prob")
    /\ Raised("main", "ValidationError")
    /\ 1 \in outcome["main"].arg.vals
    /\ self["_validate_args"]
    /\ "logits" \notin DOMAIN self
    /\ computed["logits"] = 0

\* C10: a sample call that returns has made exactly two sampler calls, in this
\* order: Gamma.sample on self._gamma, which is Gamma(total_count, exp(-logits))
\* and has been built once, with the sample_shape requested; then torch.poisson
\* on the array that draw returned.  The array torch.poisson returned is the
\* result, and no sample call raises ValidationError.
C10_GammaThenPoisson ==
    Made("main", "sample") =>
        /\ ~Raised("main", "ValidationError")
        /\ ~IsError(outcome["main"].result) =>
              LET log == outcome["main"].log
              IN  /\ Len(log) = 2
                  /\ log[1].fn = "Gamma.sample"
                  /\ log[1].dist = self["_gamma"]
                  /\ log[1].dist = Gamma(self["total_count"], exp_neg(self["logits"]))
                  /\ log[1].sample_shape = outcome["main"].arg
                  /\ log[2].fn = "poisson"
                  /\ log[2].input = log[1].out
                  /\ outcome["main"].result = log[2].out
                  /\ computed["_gamma"] = 1

\* A sample call has returned with _gamma built once: the Gamma drew the
\* rate 2, torch.poisson was given that array and drew 3, which was returned.
C10_Witness ==
    /\ Made("main", "sample")
    /\ ~IsError(outcome["main"].result)
    /\ outcome["main"].log[1].out.vals = {2}
    /\ outcome["main"].log[2].input.vals = {2}
    /\ outcome["main"].result.vals = {3}
    /\ computed["_gamma"] = 1

\* ------------------------------------------------------------------ two threads

\* Thread t's read of name has come back with a value.
Read(t, name) ==
    /\ Made(t, "getattr")
    /\ outcome[t].arg = name
    /\ ~IsError(outcome[t].result)

\* C7: with two threads reading the lazy attributes of one instance, a body
\* may run twice, but every value a body produces for an attribute is the same
\* value; a slot, once set, keeps its value; a read returns the value in the
\* slot; and every read that is begun comes back, with the slot set to that
\* value unless building the Gamma raised.
C7_RacesConverge ==
    /\ [][\A name \in LazyNames :
             /\ \A t \in Threads :
                   (stack'[t] # <<>> /\ Top(t)'.fn = name /\ Top(t)'.pc = "setattr")
                      => /\ name \in DOMAIN self' => Top(t)'.loc = self'[name]
                         /\ \A u \in Threads :
                               (stack'[u] # <<>> /\ Top(u)'.fn = name
                                   /\ Top(u)'.pc = "setattr")
                                  => Top(u)'.loc = Top(t)'.loc
             /\ name \in DOMAIN self
                   => name \in DOMAIN self' /\ self'[name] = self[name]
             /\ \A t \in Threads :
                   (Ends(t, "getattr") /\ call[t].arg = name
                       /\ ~IsError(outcome'[t].result))
                      => /\ name \in DOMAIN self'
                         /\ outcome'[t].result = self'[name]]_vars
    /\ \A t \in Threads : \A name \in LazyNames :
          (InCall(t, "getattr") /\ call[t].arg = name)
             ~> (/\ Made(t, "getattr")
                 /\ outcome[t].arg = name
                 /\ \/ Raised(t, "ExternalError")
                    \/ /\ name \in DOMAIN self
                       /\ outcome[t].result = self[name])

\* Both threads computed logits, and both reads returned the value now cached.
C7_Witness ==
    /\ computed["logits"] = 2
    /\ "logits" \in DOMAIN self
    /\ \A t \in Threads : Read(t, "logits") /\ outcome[t].result = self["logits"]

====
